---- MODULE Spec2Model ----
(***************************************************************************)
(* Model of the Synta front end: the line lexer (lexer.go), the recursive  *)
(* descent parser with its validation pass (parser.go) and the pruning     *)
(* pass (clear.go).  Source text is a sequence of physical lines, each a   *)
(* sequence of one-character strings; bufio.Scanner hands them out one at  *)
(* a time.                                                                 *)
(***************************************************************************)
EXTENDS Integers, Sequences, FiniteSets, TLC

VARIABLES
    input,          \* the source text, as the lines bufio.Scanner yields
    lexer,          \* the Lexer struct
    out,            \* results of the NextToken calls made so far (lexer runs)
    currentToken,   \* parser.currentToken
    s,              \* the Synta under construction in parseFile
    pc,             \* position of the running entry point
    result,         \* what ParseSynta returned: [err, synta]
    cleared,        \* what Clear returned for a successful parse
    segres          \* what parseSegments returned (segment-grammar runs)

vars == <<input, lexer, out, currentToken, s, pc, result, cleared, segres>>

----------------------------------------------------------------------------
(* Bounds *)

MaxLines == 3       \* lines of a source handed to ParseSynta
MaxLexLines == 3    \* lines of a source handed to a bare Lexer
MaxLineLen == 6     \* length of the exhaustively enumerated single lines
MaxCalls == 10      \* NextToken calls in a bare lexer run
MaxBody == 6        \* characters of an exhaustively enumerated filename body

----------------------------------------------------------------------------
(* Characters and strings *)

LowerLetters == {"a", "b", "c", "x", "y"}

isLetter(c) == c \in LowerLetters

IsSpace(c) == c = " "

RECURSIVE TrimLeft(_)
TrimLeft(str) ==
    IF str = <<>> THEN str
    ELSE IF IsSpace(Head(str)) THEN TrimLeft(Tail(str)) ELSE str

RECURSIVE TrimRight(_)
TrimRight(str) ==
    IF str = <<>> THEN str
    ELSE IF IsSpace(str[Len(str)]) THEN TrimRight(SubSeq(str, 1, Len(str) - 1))
    ELSE str

TrimSpace(str) == TrimRight(TrimLeft(str))

\* " = " starts at index i of line
SepAt(line, i) ==
    /\ i + 2 <= Len(line)
    /\ line[i] = " " /\ line[i + 1] = "=" /\ line[i + 2] = " "

SepIndexes(line) == {i \in 1..Len(line) : SepAt(line, i)}

HasSep(str) == SepIndexes(str) # {}

SetMin(S) == CHOOSE m \in S : \A n \in S : m <= n

SetMax(S) == CHOOSE m \in S : \A n \in S : m >= n

\* strings.SplitN(line, " = ", 2) cutting at the last separator instead
SplitNLast(line) ==
    IF SepIndexes(line) = {} THEN <<line>>
    ELSE LET i == SetMax(SepIndexes(line))
         IN <<SubSeq(line, 1, i - 1), SubSeq(line, i + 3, Len(line))>>

\* strings.SplitN(line, " = ", 2): cut once, at the first separator
SplitN(line) ==
    IF SepIndexes(line) = {} THEN <<line>>
    ELSE LET i == SetMin(SepIndexes(line))
         IN <<SubSeq(line, 1, i - 1), SubSeq(line, i + 3, Len(line))>>

\* IdentifierRegexp.Match: "[a-z]+" is unanchored, so any letter matches
IdentifierRegexpMatch(id) == \E i \in 1..Len(id) : isLetter(id[i])

----------------------------------------------------------------------------
(* Tokens and errors *)

TokenTypes == {"EOF", "COMMENT", "EQUALS", "FILENAME_PREFIX", "IDENTIFIER",
               "REGEXP", "DASH", "DOT", "LPAREN", "RPAREN", "QUESTION"}

Token(type, value, pos, line) ==
    [Type |-> type, Value |-> value, Pos |-> pos, Line |-> line]

\* Token{}
ZeroToken == Token("EOF", <<>>, 0, 0)

\* an error value: its cause, whether the message carries a line number and
\* which, the text the message names and the position it names
Err(kind, hasLine, line, arg) ==
    [kind |-> kind, hasLine |-> hasLine, line |-> line, arg |-> arg, pos |-> 0]

NoErr == Err("none", FALSE, 0, <<>>)

IsErr(e) == e.kind # "none"

----------------------------------------------------------------------------
(* Lexer *)

NewLexer ==
    [scanned |-> 0, currentLine |-> <<>>, lineNum |-> 0, pos |-> 0,
     inFilename |-> FALSE, pendingTokens |-> <<>>]

\* readNextLine counting only the non-blank lines
RECURSIVE readNextLineSkipBlank(_, _)
readNextLineSkipBlank(inp, l) ==
    IF l.scanned >= Len(inp) THEN [ok |-> FALSE, l |-> l]
    ELSE LET line == TrimSpace(inp[l.scanned + 1])
         IN IF line # <<>>
            THEN [ok |-> TRUE,
                  l |-> [l EXCEPT !.scanned = @ + 1, !.lineNum = @ + 1,
                                  !.currentLine = line, !.pos = 0]]
            ELSE readNextLineSkipBlank(inp, [l EXCEPT !.scanned = @ + 1])

RECURSIVE readNextLine(_, _)
readNextLine(inp, l) ==
    IF l.scanned >= Len(inp) THEN [ok |-> FALSE, l |-> l]
    ELSE LET l1 == [l EXCEPT !.scanned = @ + 1, !.lineNum = @ + 1]
             line == TrimSpace(inp[l1.scanned])
         IN IF line # <<>>
            THEN [ok |-> TRUE, l |-> [l1 EXCEPT !.currentLine = line, !.pos = 0]]
            ELSE readNextLine(inp, l1)

SingleCharType(c) ==
    CASE c = "-" -> "DASH"
      [] c = "." -> "DOT"
      [] c = "(" -> "LPAREN"
      [] c = ")" -> "RPAREN"
      [] c = "?" -> "QUESTION"

\* end (exclusive, 0-based) of the run of letters starting at 0-based pos
RECURSIVE LetterRunEnd(_, _)
LetterRunEnd(str, pos) ==
    IF pos < Len(str) /\ isLetter(str[pos + 1])
    THEN LetterRunEnd(str, pos + 1) ELSE pos

\* the loop of parseFilenameSegments, from 0-based pos with tokens so far
RECURSIVE scanFilenameSegments(_, _, _, _)
scanFilenameSegments(str, pos, tokens, lineNum) ==
    IF pos >= Len(str) THEN [tokens |-> tokens, err |-> NoErr]
    ELSE LET c == str[pos + 1]
         IN IF c \in {"-", ".", "(", ")", "?"}
            THEN scanFilenameSegments(str, pos + 1,
                     Append(tokens, Token(SingleCharType(c), <<c>>, pos, lineNum)),
                     lineNum)
            ELSE IF isLetter(c)
            THEN LET end == LetterRunEnd(str, pos)
                 IN scanFilenameSegments(str, end,
                        Append(tokens, Token("IDENTIFIER",
                                             SubSeq(str, pos + 1, end), pos, lineNum)),
                        lineNum)
            ELSE [tokens |-> <<>>,
                  err |-> [Err("unexpected character", FALSE, 0, <<c>>)
                              EXCEPT !.pos = pos]]

parseFilenameSegments(str, l) == scanFilenameSegments(str, 0, <<>>, l.lineNum)

\* v handed to F: the value a call returned, bound to a local name
With(v, F(_)) == F(v)

tokenizeFilename(segments, l) ==
    With([l EXCEPT !.inFilename = TRUE], LAMBDA l1 :
    With(parseFilenameSegments(segments, l1), LAMBDA r :
        IF IsErr(r.err)
        THEN [token |-> ZeroToken, err |-> r.err, l |-> l1]
        ELSE [token |-> Token("FILENAME_PREFIX", <<">">>, 0, l1.lineNum),
              err |-> NoErr,
              l |-> [l1 EXCEPT !.pendingTokens = r.tokens, !.inFilename = FALSE]]))

tokenizeDefinition(line, l) ==
    With(SplitN(line), LAMBDA parts :
        IF Len(parts) # 2
        THEN [token |-> ZeroToken,
              err |-> Err("invalid definition format", TRUE, l.lineNum, line),
              l |-> l]
        ELSE LET id == parts[1]
                 pattern == parts[2]
             IN IF ~IdentifierRegexpMatch(id)
                THEN [token |-> ZeroToken,
                      err |-> Err("invalid identifier", TRUE, l.lineNum, id),
                      l |-> l]
                ELSE [token |-> Token("IDENTIFIER", id, 0, l.lineNum),
                      err |-> NoErr,
                      l |-> [l EXCEPT !.pendingTokens =
                                <<Token("EQUALS", <<"=">>, 0, l.lineNum),
                                  Token("REGEXP", pattern, 0, l.lineNum)>>]])

\* NextToken once a line is at hand: l has just read it
classifyLine(l) ==
    LET line == l.currentLine
        l1 == [l EXCEPT !.pos = Len(l.currentLine)]
    IN IF Len(line) > 0 /\ line[1] = ";"
       THEN [token |-> Token("COMMENT", TrimSpace(Tail(line)), 0, l1.lineNum),
             err |-> NoErr, l |-> l1]
       ELSE IF Len(line) >= 2 /\ SubSeq(line, 1, 2) = <<">", " ">>
       THEN tokenizeFilename(SubSeq(line, 3, Len(line)), l1)
       ELSE tokenizeDefinition(line, l1)

\* the part of NextToken after the pending queue has been found empty
NextTokenFromLine(inp, l) ==
    With(IF l.pos >= Len(l.currentLine)
         THEN readNextLine(inp, l) ELSE [ok |-> TRUE, l |-> l], LAMBDA rd :
        IF ~rd.ok
        THEN [token |-> Token("EOF", <<>>, 0, rd.l.lineNum), err |-> NoErr, l |-> rd.l]
        ELSE classifyLine(rd.l))

NextToken(inp, l) ==
    IF Len(l.pendingTokens) > 0
    THEN [token |-> Head(l.pendingTokens), err |-> NoErr,
          l |-> [l EXCEPT !.pendingTokens = Tail(@)]]
    ELSE NextTokenFromLine(inp, l)

----------------------------------------------------------------------------
(* Data model *)

\* a Go map: a function on its key set; a missing key reads as the zero value
MapHas(m, k) == k \in DOMAIN m

MapSet(m, k, v) == [x \in (DOMAIN m) \cup {k} |-> IF x = k THEN v ELSE m[x]]

\* a compiled regexp is identified by the pattern it was compiled from
Definition(comments, re) == [Comments |-> comments, Regexp |-> re]

ZeroDefinition == Definition(<<>>, <<>>)

MapGet(m, k) == IF k \in DOMAIN m THEN m[k] ELSE ZeroDefinition

IdentifierSegment(id) ==
    [Kind |-> "Identifier", Value |-> id, Subsegments |-> <<>>]

OptionalSegment(subsegments) ==
    [Kind |-> "Optional", Value |-> <<>>, Subsegments |-> subsegments]

Filename(segments, ext) == [Segments |-> segments, Extension |-> ext]

ZeroFilename == Filename(<<>>, <<>>)

DefinitionNode(id, def) ==
    [Type |-> "Definition", Identifier |-> id, Definition |-> def,
     Filename |-> ZeroFilename]

FilenameNode(fn) ==
    [Type |-> "Filename", Identifier |-> <<>>, Definition |-> ZeroDefinition,
     Filename |-> fn]

ZeroNode == DefinitionNode(<<>>, ZeroDefinition)

Synta(nodes, defs, fn) == [Nodes |-> nodes, Definitions |-> defs, Filename |-> fn]

ZeroSynta == Synta(<<>>, <<>>, ZeroFilename)

\* regexp.Compile on the patterns of the modelled sources: it rejects
\* unbalanced parentheses and a leading repetition operator
RECURSIVE ParenDepthOK(_, _)
ParenDepthOK(pattern, depth) ==
    IF pattern = <<>> THEN depth = 0
    ELSE IF Head(pattern) = "(" THEN ParenDepthOK(Tail(pattern), depth + 1)
    ELSE IF Head(pattern) = ")"
         THEN depth > 0 /\ ParenDepthOK(Tail(pattern), depth - 1)
    ELSE ParenDepthOK(Tail(pattern), depth)

RegexpCompiles(pattern) ==
    /\ ParenDepthOK(pattern, 0)
    /\ (pattern # <<>> => Head(pattern) # "?")

----------------------------------------------------------------------------
(* Parser: every function takes the parser p = [lexer, currentToken] and   *)
(* returns it as the call left it                                          *)

Parser(l, tok) == [lexer |-> l, currentToken |-> tok]

advance(inp, p) ==
    With(NextToken(inp, p.lexer), LAMBDA r :
        IF IsErr(r.err)
        THEN [err |-> r.err, p |-> Parser(r.l, p.currentToken)]
        ELSE [err |-> NoErr, p |-> Parser(r.l, r.token)])

expect(inp, p, expected) ==
    IF p.currentToken.Type # expected
    THEN [err |-> Err("expected token", TRUE, p.currentToken.Line,
                      <<expected, p.currentToken.Type>>),
          p |-> p]
    ELSE advance(inp, p)

parseIdentifier(inp, p) ==
    IF p.currentToken.Type # "IDENTIFIER"
    THEN [err |-> Err("expected identifier", FALSE, 0, <<p.currentToken.Type>>),
          p |-> p, id |-> <<>>]
    ELSE With(advance(inp, p), LAMBDA a :
             IF IsErr(a.err) THEN [err |-> a.err, p |-> a.p, id |-> <<>>]
             ELSE [err |-> NoErr, p |-> a.p, id |-> p.currentToken.Value])

RECURSIVE parseSegment(_, _)
RECURSIVE parseOptional(_, _)
RECURSIVE parseSegmentsLoop(_, _, _)
RECURSIVE parseSegmentsLoopLax(_, _, _)
RECURSIVE parseOptionalNoDash(_, _)

parseSegment(inp, p) ==
    IF p.currentToken.Type = "LPAREN" THEN parseOptional(inp, p)
    ELSE With(parseIdentifier(inp, p), LAMBDA r :
             IF IsErr(r.err) THEN [err |-> r.err, p |-> r.p, seg |-> <<>>]
             ELSE [err |-> NoErr, p |-> r.p, seg |-> IdentifierSegment(r.id)])

\* the loop of parseSegments letting a bare identifier follow without a dash
parseSegmentsLoopLax(inp, p, segments) ==
    With(parseSegment(inp, p), LAMBDA r :
        IF IsErr(r.err) THEN [err |-> r.err, p |-> r.p, segs |-> <<>>]
        ELSE LET segs == Append(segments, r.seg)
                 t == r.p.currentToken.Type
             IN IF t \in {"DOT", "RPAREN"}
                THEN [err |-> NoErr, p |-> r.p, segs |-> segs]
                ELSE IF t = "EOF"
                THEN [err |-> Err("unexpected end of file while parsing segments",
                                  FALSE, 0, <<>>),
                      p |-> r.p, segs |-> <<>>]
                ELSE IF t = "DASH"
                THEN With(advance(inp, r.p), LAMBDA a :
                         IF IsErr(a.err)
                         THEN [err |-> a.err, p |-> a.p, segs |-> <<>>]
                         ELSE parseSegmentsLoopLax(inp, a.p, segs))
                ELSE IF t \in {"LPAREN", "IDENTIFIER"}
                THEN parseSegmentsLoopLax(inp, r.p, segs)
                ELSE [err |-> Err("expected '.', '-', ')', or '('", FALSE, 0, <<t>>),
                      p |-> r.p, segs |-> <<>>])

\* one iteration of the loop of parseSegments, segments being those parsed
\* so far
parseSegmentsLoop(inp, p, segments) ==
    With(parseSegment(inp, p), LAMBDA r :
        IF IsErr(r.err) THEN [err |-> r.err, p |-> r.p, segs |-> <<>>]
        ELSE LET segs == Append(segments, r.seg)
                 t == r.p.currentToken.Type
             IN IF t = "DOT"
                THEN [err |-> NoErr, p |-> r.p, segs |-> segs]
                ELSE IF t = "RPAREN"
                THEN [err |-> NoErr, p |-> r.p, segs |-> segs]
                ELSE IF t = "EOF"
                THEN [err |-> Err("unexpected end of file while parsing segments",
                                  FALSE, 0, <<>>),
                      p |-> r.p, segs |-> <<>>]
                ELSE IF t = "DASH"
                THEN With(advance(inp, r.p), LAMBDA a :
                         IF IsErr(a.err)
                         THEN [err |-> a.err, p |-> a.p, segs |-> <<>>]
                         ELSE parseSegmentsLoop(inp, a.p, segs))
                ELSE IF t = "LPAREN"
                THEN parseSegmentsLoop(inp, r.p, segs)
                ELSE [err |-> Err("expected '.', '-', ')', or '('", FALSE, 0, <<t>>),
                      p |-> r.p, segs |-> <<>>])

parseSegments(inp, p) == parseSegmentsLoop(inp, p, <<>>)

\* parseOptional from the call of parseSegments on
parseOptionalGroup(inp, p) ==
    With(parseSegments(inp, p), LAMBDA sub :
        IF IsErr(sub.err) THEN [err |-> sub.err, p |-> sub.p, seg |-> <<>>]
        ELSE With(expect(inp, sub.p, "RPAREN"), LAMBDA e3 :
        IF IsErr(e3.err) THEN [err |-> e3.err, p |-> e3.p, seg |-> <<>>]
        ELSE With(expect(inp, e3.p, "QUESTION"), LAMBDA e4 :
        IF IsErr(e4.err) THEN [err |-> e4.err, p |-> e4.p, seg |-> <<>>]
        ELSE [err |-> NoErr, p |-> e4.p, seg |-> OptionalSegment(sub.segs)])))

\* parseOptional that does not insist on the dash after '('
parseOptionalNoDash(inp, p) ==
    With(expect(inp, p, "LPAREN"), LAMBDA e1 :
        IF IsErr(e1.err) THEN [err |-> e1.err, p |-> e1.p, seg |-> <<>>]
        ELSE With(IF e1.p.currentToken.Type = "DASH"
                  THEN advance(inp, e1.p) ELSE [err |-> NoErr, p |-> e1.p], LAMBDA e2 :
        IF IsErr(e2.err) THEN [err |-> e2.err, p |-> e2.p, seg |-> <<>>]
        ELSE parseOptionalGroup(inp, e2.p)))

parseOptional(inp, p) ==
    With(expect(inp, p, "LPAREN"), LAMBDA e1 :
        IF IsErr(e1.err) THEN [err |-> e1.err, p |-> e1.p, seg |-> <<>>]
        ELSE With(expect(inp, e1.p, "DASH"), LAMBDA e2 :
        IF IsErr(e2.err) THEN [err |-> e2.err, p |-> e2.p, seg |-> <<>>]
        ELSE parseOptionalGroup(inp, e2.p)))

parseFilenameNode(inp, p) ==
    IF p.currentToken.Type # "FILENAME_PREFIX"
    THEN [err |-> Err("expected filename prefix", FALSE, 0, <<p.currentToken.Type>>),
          p |-> p, node |-> ZeroNode]
    ELSE With(advance(inp, p), LAMBDA a1 :
    IF IsErr(a1.err) THEN [err |-> a1.err, p |-> a1.p, node |-> ZeroNode]
    ELSE With(parseSegments(inp, a1.p), LAMBDA sg :
    IF IsErr(sg.err) THEN [err |-> sg.err, p |-> sg.p, node |-> ZeroNode]
    ELSE IF sg.p.currentToken.Type # "DOT"
    THEN [err |-> Err("expected '.' before extension", FALSE, 0,
                      <<sg.p.currentToken.Type>>),
          p |-> sg.p, node |-> ZeroNode]
    ELSE With(advance(inp, sg.p), LAMBDA a2 :
    IF IsErr(a2.err) THEN [err |-> a2.err, p |-> a2.p, node |-> ZeroNode]
    ELSE With(parseIdentifier(inp, a2.p), LAMBDA ext :
    IF IsErr(ext.err) THEN [err |-> ext.err, p |-> ext.p, node |-> ZeroNode]
    ELSE [err |-> NoErr, p |-> ext.p,
          node |-> FilenameNode(Filename(sg.segs, ext.id))]))))

\* the comment loop of parseDefinitionNode
RECURSIVE collectComments(_, _, _)
collectComments(inp, p, comments) ==
    IF p.currentToken.Type # "COMMENT"
    THEN [err |-> NoErr, p |-> p, comments |-> comments]
    ELSE With(advance(inp, p), LAMBDA a :
             IF IsErr(a.err) THEN [err |-> a.err, p |-> a.p, comments |-> <<>>]
             ELSE collectComments(inp, a.p, Append(comments, p.currentToken.Value)))

parseDefinitionNode(inp, p) ==
    With(collectComments(inp, p, <<>>), LAMBDA cm :
    IF IsErr(cm.err) THEN [err |-> cm.err, p |-> cm.p, node |-> ZeroNode]
    ELSE IF cm.p.currentToken.Type # "IDENTIFIER"
    THEN [err |-> Err("expected identifier", TRUE, cm.p.currentToken.Line,
                      <<cm.p.currentToken.Type>>),
          p |-> cm.p, node |-> ZeroNode]
    ELSE With(advance(inp, cm.p), LAMBDA a1 :
    IF IsErr(a1.err) THEN [err |-> a1.err, p |-> a1.p, node |-> ZeroNode]
    ELSE IF a1.p.currentToken.Type # "EQUALS"
    THEN [err |-> Err("expected '='", TRUE, a1.p.currentToken.Line,
                      <<a1.p.currentToken.Type>>),
          p |-> a1.p, node |-> ZeroNode]
    ELSE With(advance(inp, a1.p), LAMBDA a2 :
    IF IsErr(a2.err) THEN [err |-> a2.err, p |-> a2.p, node |-> ZeroNode]
    ELSE IF a2.p.currentToken.Type # "REGEXP"
    THEN [err |-> Err("expected regexp pattern", TRUE, a2.p.currentToken.Line,
                      <<a2.p.currentToken.Type>>),
          p |-> a2.p, node |-> ZeroNode]
    ELSE IF ~RegexpCompiles(a2.p.currentToken.Value)
    THEN [err |-> Err("invalid regexp", TRUE, a2.p.currentToken.Line,
                      a2.p.currentToken.Value),
          p |-> a2.p, node |-> ZeroNode]
    ELSE With(advance(inp, a2.p), LAMBDA a3 :
    IF IsErr(a3.err) THEN [err |-> a3.err, p |-> a3.p, node |-> ZeroNode]
    ELSE [err |-> NoErr, p |-> a3.p,
          node |-> DefinitionNode(cm.p.currentToken.Value,
                                  Definition(cm.comments,
                                             a2.p.currentToken.Value))]))))

\* getRequiredIdentifiers that does not descend into optional groups
RECURSIVE getRequiredIdentifiersShallow(_)
getRequiredIdentifiersShallow(segments) ==
    IF segments = <<>> THEN <<>>
    ELSE LET seg == Head(segments)
         IN (IF seg.Kind = "Optional" THEN <<>> ELSE <<seg.Value>>)
            \o getRequiredIdentifiersShallow(Tail(segments))

RECURSIVE getRequiredIdentifiers(_)
getRequiredIdentifiers(segments) ==
    IF segments = <<>> THEN <<>>
    ELSE LET seg == Head(segments)
         IN (IF seg.Kind = "Optional"
             THEN getRequiredIdentifiers(seg.Subsegments)
             ELSE <<seg.Value>>)
            \o getRequiredIdentifiers(Tail(segments))

\* the first identifier of ids that defs lacks, <<>> when there is none
RECURSIVE firstMissing(_, _)
firstMissing(ids, defs) ==
    IF ids = <<>> THEN <<>>
    ELSE IF ~MapHas(defs, Head(ids)) THEN Head(ids)
    ELSE firstMissing(Tail(ids), defs)

\* the validation at the end of parseFile, once the statement loop is over
validate(syn) ==
    IF syn.Filename.Extension = <<>>
    THEN [err |-> Err("missing filename declaration", FALSE, 0, <<>>),
          synta |-> ZeroSynta]
    ELSE LET requiredIdentifiers ==
                 Append(getRequiredIdentifiers(syn.Filename.Segments),
                        syn.Filename.Extension)
             missing == firstMissing(requiredIdentifiers, syn.Definitions)
         IN IF missing # <<>>
            THEN [err |-> Err("missing definition", FALSE, 0, missing),
                  synta |-> ZeroSynta]
            ELSE [err |-> NoErr, synta |-> syn]

\* the quick-access switch of parseFile without the duplicate check
populateNoCheck(syn, node) ==
    LET s1 == [syn EXCEPT !.Nodes = Append(@, node)]
    IN IF node.Type = "Definition"
       THEN [err |-> NoErr,
             s |-> [s1 EXCEPT !.Definitions =
                       MapSet(@, node.Identifier, node.Definition)]]
       ELSE IF s1.Filename.Extension # <<>>
            THEN [err |-> Err("multiple filename declarations found", FALSE, 0, <<>>),
                  s |-> s1]
            ELSE [err |-> NoErr, s |-> [s1 EXCEPT !.Filename = node.Filename]]

\* parseFile appending a parsed node and filling the quick-access structures
populate(syn, node) ==
    LET s1 == [syn EXCEPT !.Nodes = Append(@, node)]
    IN IF node.Type = "Definition"
       THEN IF MapHas(s1.Definitions, node.Identifier)
            THEN [err |-> Err("definition provided twice", FALSE, 0, node.Identifier),
                  s |-> s1]
            ELSE [err |-> NoErr,
                  s |-> [s1 EXCEPT !.Definitions =
                            MapSet(@, node.Identifier, node.Definition)]]
       ELSE IF s1.Filename.Extension # <<>>
            THEN [err |-> Err("multiple filename declarations found", FALSE, 0, <<>>),
                  s |-> s1]
            ELSE [err |-> NoErr, s |-> [s1 EXCEPT !.Filename = node.Filename]]

----------------------------------------------------------------------------
(* Pruning *)

\* clearSegments that does not descend into optional groups
RECURSIVE clearSegmentsShallow(_, _, _)
clearSegmentsShallow(syn, defs, segments) ==
    IF segments = <<>> THEN defs
    ELSE LET segment == Head(segments)
             d1 == IF segment.Kind = "Identifier"
                   THEN MapSet(defs, segment.Value,
                               MapGet(syn.Definitions, segment.Value))
                   ELSE defs
         IN clearSegmentsShallow(syn, d1, Tail(segments))

\* clearSegments: defs is the Definitions map of the document being built
RECURSIVE clearSegments(_, _, _)
clearSegments(syn, defs, segments) ==
    IF segments = <<>> THEN defs
    ELSE LET segment == Head(segments)
             d1 == IF segment.Kind = "Identifier"
                   THEN MapSet(defs, segment.Value,
                               MapGet(syn.Definitions, segment.Value))
                   ELSE clearSegments(syn, defs, segment.Subsegments)
         IN clearSegments(syn, d1, Tail(segments))

Clear(syn) ==
    LET fn == syn.Filename
        d0 == MapSet(<<>>, fn.Extension, MapGet(syn.Definitions, fn.Extension))
    IN Synta(<<>>, clearSegments(syn, d0, fn.Segments), fn)

----------------------------------------------------------------------------
(* Source lines *)

DefA == <<"a", " ", "=", " ", "x">>                                  \* a = x
DefB == <<"b", " ", "=", " ", "y">>                                  \* b = y
DefC == <<"c", " ", "=", " ", "x">>                                  \* c = x
DefADup == <<"a", " ", "=", " ", "y">>                               \* a = y
DefBadRegexp == <<"b", " ", "=", " ", "(">>                          \* b = (
DefPartialId == <<"a", "B", " ", "=", " ", "x">>                     \* aB = x
DefUpperId == <<"B", " ", "=", " ", "x">>                            \* B = x
DefTwoSeps == <<"a", " ", "=", " ", "b", " ", "=", " ", "c">>        \* a = b = c
DefIndented == <<" ", "b", " ", "=", " ", "y", " ">>                 \* b = y, padded
NoSepLine == <<"a">>                                                 \* a
CommentLine == <<";", " ", "c">>                                     \* ; c
BlankLine == <<>>
SpacesLine == <<" ", " ">>
FnA == <<">", " ", "a", ".", "a">>                                   \* > a.a
FnAB == <<">", " ", "a", "-", "b", ".", "b">>                        \* > a-b.b
FnOptThenId == <<">", " ", "(", "-", "b", ")", "?", "a", ".", "a">>  \* > (-b)?a.a
FnOptDashId == <<">", " ", "(", "-", "b", ")", "?", "-", "a", ".", "a">>  \* > (-b)?-a.a
FnIdOpt == <<">", " ", "a", "(", "-", "b", ")", "?", ".", "a">>      \* > a(-b)?.a
FnTrailing == <<">", " ", "a", ".", "a", "?">>                       \* > a.a?
FnBadChar == <<">", " ", "a", "_", ".", "a">>                        \* > a_.a

BodyNested == <<"(", "-", "(", "-", "a", ")", "?", ")", "?">>        \* (-(-a)?)?
BodyNestedAfterId == <<"a", "(", "-", "b", "(", "-", "c", ")", "?", ")", "?">>
BodyNestedThenId == <<"(", "-", "a", "(", "-", "b", ")", "?", ")", "?", "c">>
BodyTwoOpts == <<"a", "(", "-", "b", ")", "?", "(", "-", "c", ")", "?">>
BodyUnclosed == <<"(", "-", "a", "(", "-", "b", ")", "?">>
BodyDashOptDash == <<"a", "-", "(", "-", "b", ")", "?", "-", "c">>

SeqsUpTo(S, n) == UNION {[1..k -> S] : k \in 0..n}

\* the lines a parsed source is made of
ParseLines == {DefA, DefB, DefC, DefADup, DefBadRegexp, NoSepLine, CommentLine,
               BlankLine, FnA, FnAB, FnOptThenId, FnOptDashId, FnIdOpt,
               FnTrailing, FnBadChar}

ParseInputs == SeqsUpTo(ParseLines, MaxLines)

\* the lines a bare lexer is run on: samples, and every short line
LexLines == {DefA, DefIndented, DefPartialId, DefUpperId, DefTwoSeps, NoSepLine,
             CommentLine, BlankLine, SpacesLine, FnAB, FnBadChar}

LexAlphabet == {"a", "B", " ", "=", ">"}

LexInputs == SeqsUpTo(LexLines, MaxLexLines)
             \cup {<<line>> : line \in SeqsUpTo(LexAlphabet, MaxLineLen)}

\* the filename bodies the segment grammar is run on
BodyAlphabet == {"a", "-", "(", ")", "?", "."}

SegBodies == SeqsUpTo(BodyAlphabet, MaxBody)
             \cup {BodyNested, BodyNestedAfterId, BodyNestedThenId, BodyTwoOpts,
                   BodyUnclosed, BodyDashOptDash}

FilenameLine(body) == <<">", " ">> \o body \o <<".", "a">>

----------------------------------------------------------------------------
(* ParseSynta followed by Clear *)

NoResult == [err |-> NoErr, synta |-> ZeroSynta]

NoSegres == [err |-> NoErr, segs |-> <<>>]

Init ==
    /\ input \in ParseInputs
    /\ lexer = NewLexer
    /\ out = <<>>
    /\ currentToken = ZeroToken
    /\ s = Synta(<<>>, <<>>, ZeroFilename)
    /\ pc = "start"
    /\ result = NoResult
    /\ cleared = ZeroSynta
    /\ segres = NoSegres

\* what ParseSyntaFromReader does with the result a of its first advance,
\* up to the statement loop of parseFile
FirstToken(a) ==
    /\ lexer' = a.p.lexer
    /\ currentToken' = a.p.currentToken
    /\ IF IsErr(a.err)
       THEN pc' = "done" /\ result' = [err |-> a.err, synta |-> ZeroSynta]
       ELSE IF a.p.currentToken.Type = "EOF"
       THEN /\ pc' = "done"
            /\ result' = [err |-> Err("empty file provided", FALSE, 0, <<>>),
                          synta |-> ZeroSynta]
       ELSE pc' = "loop" /\ UNCHANGED result

\* ParseSyntaFromReader up to the statement loop of parseFile
ParseSyntaFromReader ==
    /\ pc = "start"
    /\ FirstToken(advance(input, Parser(NewLexer, ZeroToken)))
    /\ UNCHANGED <<input, out, s, cleared, segres>>

\* the end of an iteration of the statement loop, q being what filling the
\* quick-access structures gave
Populated(q) ==
    /\ s' = q.s
    /\ IF IsErr(q.err)
       THEN pc' = "done" /\ result' = [err |-> q.err, synta |-> ZeroSynta]
       ELSE pc' = "loop" /\ UNCHANGED result

\* the rest of an iteration of the statement loop once the node is parsed
Statement(r) ==
    /\ lexer' = r.p.lexer
    /\ currentToken' = r.p.currentToken
    /\ IF IsErr(r.err)
       THEN /\ pc' = "done"
            /\ result' = [err |-> r.err, synta |-> ZeroSynta]
            /\ UNCHANGED s
       ELSE Populated(populate(s, r.node))
    /\ UNCHANGED <<input, out, cleared, segres>>

\* the statement loop dropping a comment it meets at the start of a statement
ParseFileDefinitionSkipComment ==
    /\ pc = "loop"
    /\ currentToken.Type \in {"COMMENT", "IDENTIFIER"}
    /\ IF currentToken.Type = "COMMENT"
       THEN /\ FirstToken(advance(input, Parser(lexer, currentToken)))
            /\ UNCHANGED <<input, out, s, cleared, segres>>
       ELSE Statement(parseDefinitionNode(input, Parser(lexer, currentToken)))

\* an iteration of the statement loop that starts on a comment or identifier
ParseFileDefinition ==
    /\ pc = "loop"
    /\ currentToken.Type \in {"COMMENT", "IDENTIFIER"}
    /\ Statement(parseDefinitionNode(input, Parser(lexer, currentToken)))

\* an iteration of the statement loop that starts on the filename prefix
ParseFileFilename ==
    /\ pc = "loop"
    /\ currentToken.Type = "FILENAME_PREFIX"
    /\ Statement(parseFilenameNode(input, Parser(lexer, currentToken)))

\* an iteration of the statement loop that starts on any other token
ParseFileUnexpected ==
    /\ pc = "loop"
    /\ currentToken.Type \notin {"EOF", "COMMENT", "IDENTIFIER", "FILENAME_PREFIX"}
    /\ pc' = "done"
    /\ result' = [err |-> Err("unexpected token", TRUE, currentToken.Line,
                              <<currentToken.Type>>),
                  synta |-> ZeroSynta]
    /\ UNCHANGED <<input, lexer, out, currentToken, s, cleared, segres>>

\* the statement loop ends on EOF: validation and return
ParseFileValidate ==
    /\ pc = "loop"
    /\ currentToken.Type = "EOF"
    /\ pc' = "done"
    /\ result' = validate(s)
    /\ UNCHANGED <<input, lexer, out, currentToken, s, cleared, segres>>

\* Clear applied to the document a successful parse returned
ClearDocument ==
    /\ pc = "done"
    /\ ~IsErr(result.err)
    /\ cleared' = Clear(result.synta)
    /\ pc' = "cleared"
    /\ UNCHANGED <<input, lexer, out, currentToken, s, result, segres>>

Next ==
    \/ ParseSyntaFromReader
    \/ ParseFileDefinition
    \/ ParseFileFilename
    \/ ParseFileUnexpected
    \/ ParseFileValidate
    \/ ClearDocument

Spec == Init /\ [][Next]_vars

----------------------------------------------------------------------------
(* A bare lexer: NextToken called over and over *)

LexInit ==
    /\ input \in LexInputs
    /\ lexer = NewLexer
    /\ out = <<>>
    /\ currentToken = ZeroToken
    /\ s = ZeroSynta
    /\ pc = "lex"
    /\ result = NoResult
    /\ cleared = ZeroSynta
    /\ segres = NoSegres

\* one call of NextToken; out records what it returned and how many lines
\* the scanner had handed out by then
Recorded(r) ==
    /\ lexer' = r.l
    /\ out' = Append(out, [token |-> r.token, err |-> r.err, scanned |-> r.l.scanned])

LexNextToken ==
    /\ pc = "lex"
    /\ Len(out) < MaxCalls
    /\ Recorded(NextToken(input, lexer))
    /\ UNCHANGED <<input, currentToken, s, pc, result, cleared, segres>>

LexNext == LexNextToken

LexSpec == LexInit /\ [][LexNext]_vars

----------------------------------------------------------------------------
(* The segment grammar: one filename line, parsed up to the end of         *)
(* parseSegments                                                           *)

SegInit ==
    /\ input \in {<<FilenameLine(body)>> : body \in SegBodies}
    /\ lexer = NewLexer
    /\ out = <<>>
    /\ currentToken = ZeroToken
    /\ s = ZeroSynta
    /\ pc = "segstart"
    /\ result = NoResult
    /\ cleared = ZeroSynta
    /\ segres = NoSegres

SegAdvanced(a) ==
    /\ lexer' = a.p.lexer
    /\ currentToken' = a.p.currentToken
    /\ IF IsErr(a.err)
       THEN pc' = "segdone" /\ segres' = [err |-> a.err, segs |-> <<>>]
       ELSE pc' = "segparse" /\ UNCHANGED segres

\* the first advance, made by ParseSyntaFromReader
SegAdvance ==
    /\ pc = "segstart"
    /\ SegAdvanced(advance(input, Parser(lexer, currentToken)))
    /\ UNCHANGED <<input, out, s, result, cleared>>

SegParsed(sg) ==
    /\ lexer' = sg.p.lexer
    /\ currentToken' = sg.p.currentToken
    /\ segres' = [err |-> sg.err, segs |-> sg.segs]
    /\ pc' = "segdone"

\* the advance past '>' and the call of parseSegments in parseFilenameNode
advanceThenSegments(inp, p) ==
    With(advance(inp, p), LAMBDA a :
        IF IsErr(a.err) THEN [err |-> a.err, p |-> a.p, segs |-> <<>>]
        ELSE parseSegments(inp, a.p))

\* parseFilenameNode up to the return of parseSegments
SegParseSegments ==
    /\ pc = "segparse"
    /\ currentToken.Type = "FILENAME_PREFIX"
    /\ SegParsed(advanceThenSegments(input, Parser(lexer, currentToken)))
    /\ UNCHANGED <<input, out, s, result, cleared>>

SegNext == SegAdvance \/ SegParseSegments

SegSpec == SegInit /\ [][SegNext]_vars

----------------------------------------------------------------------------
(* Properties of the lexer, over the history out of a bare lexer run       *)

Calls == 1..Len(out)

\* the calls that returned a token and no error
Returned(k) == k \in Calls /\ ~IsErr(out[k].err)

AllLetters(str) == str # <<>> /\ \A i \in 1..Len(str) : isLetter(str[i])

\* the physical line a call was working on when it returned, trimmed
LineOfCall(k) == TrimSpace(input[out[k].scanned])

\* call k is the one that read a new non-blank line
FirstCallOfLine(k) ==
    k \in Calls /\ out[k].scanned > (IF k = 1 THEN 0 ELSE out[k - 1].scanned)
                /\ LineOfCall(k) # <<>>

IsDefinitionLine(line) ==
    /\ line # <<>>
    /\ Head(line) # ";"
    /\ ~(Len(line) >= 2 /\ line[1] = ">" /\ line[2] = " ")

\* C5: on a definition line the text left of the first " = " must be all
\* lowercase letters; a partial match is a lex error and no Identifier token
\* is emitted for the line, so every Identifier token of a definition line is
\* made of lowercase letters only.
C5_IdentifierFullMatch ==
    \A k \in Calls :
        /\ (FirstCallOfLine(k) /\ IsDefinitionLine(LineOfCall(k))
            /\ HasSep(LineOfCall(k))
            /\ ~AllLetters(SplitN(LineOfCall(k))[1]))
           => IsErr(out[k].err)
        /\ (Returned(k) /\ out[k].token.Type = "IDENTIFIER"
            /\ IsDefinitionLine(LineOfCall(k)))
           => AllLetters(out[k].token.Value)

\* C8: every lex error carries the 1-based number of the physical line that
\* caused it, whatever the cause.
C8_LexErrorHasLine ==
    \A k \in Calls :
        IsErr(out[k].err)
        => (out[k].err.hasLine /\ out[k].err.line = out[k].scanned)

C10_History ==
    \A k \in Calls :
        Returned(k) =>
            \* the token carries the number of the physical line last read,
            \* blank lines counted
            /\ out[k].token.Line = out[k].scanned
            /\ (out[k].token.Type # "EOF"
                => /\ out[k].token.Line \in 1..Len(input)
                   /\ TrimSpace(input[out[k].token.Line]) # <<>>)
            /\ (out[k].token.Type = "EOF" => out[k].scanned = Len(input))
            \* line numbers never decrease, and inside a filename line the
            \* tokens come by increasing position
            /\ \A j \in 1..(k - 1) :
                   Returned(j) =>
                       /\ out[j].token.Line <= out[k].token.Line
                       /\ (/\ out[j].token.Line = out[k].token.Line
                           /\ out[j].token.Type \notin
                                 {"EOF", "FILENAME_PREFIX", "IDENTIFIER", "EQUALS", "REGEXP"}
                           /\ out[k].token.Type # "EOF")
                          => out[j].token.Pos < out[k].token.Pos

\* a call made while tokens are queued returns the head of the queue and
\* reads no line
C10_Drain ==
    (Len(lexer.pendingTokens) > 0 /\ Len(out') = Len(out) + 1)
    => /\ lexer'.scanned = lexer.scanned
       /\ lexer'.pendingTokens = Tail(lexer.pendingTokens)
       /\ out'[Len(out')].token = Head(lexer.pendingTokens)
       /\ ~IsErr(out'[Len(out')].err)
       /\ out'[Len(out')].token.Line = lexer.scanned

\* a line that expands into several tokens queues all but the first of them
C10_Queue ==
    (Len(lexer.pendingTokens) = 0 /\ Len(out') = Len(out) + 1
     /\ ~IsErr(out'[Len(out')].err))
    => LET tok == out'[Len(out')].token
       IN /\ tok.Type \in {"EOF", "COMMENT", "FILENAME_PREFIX", "IDENTIFIER"}
          /\ (tok.Type = "IDENTIFIER"
              => /\ Len(lexer'.pendingTokens) = 2
                 /\ lexer'.pendingTokens[1].Type = "EQUALS"
                 /\ lexer'.pendingTokens[2].Type = "REGEXP")
          /\ (tok.Type \in {"EOF", "COMMENT"} => lexer'.pendingTokens = <<>>)
          /\ (tok.Type = "FILENAME_PREFIX"
              => LET line == TrimSpace(input[lexer'.scanned])
                 IN /\ line[1] = ">"
                    /\ \A i \in 1..Len(lexer'.pendingTokens) :
                           LET q == lexer'.pendingTokens[i]
                           IN SubSeq(line, q.Pos + 3, q.Pos + 2 + Len(q.Value))
                                  = q.Value)

\* C10: tokens come in source order; the tokens of one physical line are
\* returned on consecutive calls before any further line is read, each
\* carries that line's number (blank lines counted), and line numbers never
\* decrease.
C10_SourceOrder == [](C10_History) /\ [][C10_Drain /\ C10_Queue]_vars

\* after a blank line, the six tokens of "> a-b.b" came out on consecutive
\* calls with line 2, and then the first token of line 3
C10_Witness ==
    /\ input = <<BlankLine, FnAB, DefA>>
    /\ Len(out) = 7
    /\ \A k \in 1..6 : Returned(k) /\ out[k].token.Line = 2
    /\ out[6].token.Type = "IDENTIFIER"
    /\ out[7].token.Line = 3 /\ out[7].token.Type = "IDENTIFIER"

----------------------------------------------------------------------------
(* Properties of the parser and of the pruning pass                        *)

Finished == pc \in {"done", "cleared"}

Succeeded == Finished /\ ~IsErr(result.err)

\* the identifiers occurring in a segment tree, at any depth
RECURSIVE SegmentIds(_)
SegmentIds(seg) ==
    IF seg.Kind = "Identifier" THEN {seg.Value}
    ELSE UNION {SegmentIds(seg.Subsegments[i]) : i \in 1..Len(seg.Subsegments)}

FilenameIds(fn) ==
    UNION {SegmentIds(fn.Segments[i]) : i \in 1..Len(fn.Segments)}
    \cup {fn.Extension}

HasOptional(fn) == \E i \in 1..Len(fn.Segments) : fn.Segments[i].Kind = "Optional"

\* C1: in the Document of a successful parse, every Identifier of the
\* Filename's segment tree, optional groups included, and the extension are
\* keys of Definitions, wherever the definitions stand in the source.
C1_RequiredDefined ==
    Succeeded =>
        /\ result.synta.Filename.Extension # <<>>
        /\ \A id \in FilenameIds(result.synta.Filename) :
               id \in DOMAIN result.synta.Definitions

\* a successful parse whose filename line, with an optional group, came
\* before the definitions it refers to
C1_Witness ==
    /\ Succeeded
    /\ HasOptional(result.synta.Filename)
    /\ result.synta.Nodes[1].Type = "Filename"
    /\ Cardinality(FilenameIds(result.synta.Filename)) = 2

\* the token-type strings of the grammar
\*   segments := segment (sep segment)*      sep := '-' | empty before '('
\*   segment  := identifier | optional       optional := '(' '-' segments ')' '?'
\* that are at most n tokens long, by derivations one step deeper than S
GrammarStep(S, n) ==
    LET optional == {<<"LPAREN", "DASH">> \o x \o <<"RPAREN", "QUESTION">> : x \in S}
        segment == {<<"IDENTIFIER">>} \cup optional
        all == segment
               \cup {x[1] \o <<"DASH">> \o x[2] : x \in S \X segment}
               \cup {x[1] \o x[2] : x \in S \X optional}
    IN {x \in all : Len(x) <= n}

RECURSIVE GrammarFix(_, _)
GrammarFix(S, n) ==
    LET T == GrammarStep(S, n) IN IF T = S THEN S ELSE GrammarFix(T, n)

\* no body has more tokens than the longest body has characters
MaxTokens == IF MaxBody > Len(BodyTwoOpts) THEN MaxBody ELSE Len(BodyTwoOpts)

SegmentsLanguage == GrammarFix({}, MaxTokens)

\* the body of the filename line of a segment-grammar run, and its tokens
BodyOf(inp) == SubSeq(inp[1], 3, Len(inp[1]) - 2)

TokenTypesOf(tokens) == [i \in 1..Len(tokens) |-> tokens[i].Type]

BodyTokenTypes == TokenTypesOf(scanFilenameSegments(BodyOf(input), 0, <<>>, 1).tokens)

\* parseSegments returned without error having consumed the whole body: it
\* stands on the dot before the extension
SegAccepted ==
    /\ pc = "segdone"
    /\ ~IsErr(segres.err)
    /\ currentToken.Type = "DOT"
    /\ Len(lexer.pendingTokens) = 1

\* C2: parseSegments and parseOptional accept the tokens of a filename body
\* exactly when the grammar generates them; an optional group may follow a
\* segment with or without a dash, and a bare identifier right after a
\* segment is rejected with a parse error.
C2_GrammarIff ==
    pc = "segdone" =>
        /\ SegAccepted <=> BodyTokenTypes \in SegmentsLanguage
        /\ (/\ Len(BodyTokenTypes) >= 2
            /\ SubSeq(BodyTokenTypes, 1, Len(BodyTokenTypes) - 1) \in SegmentsLanguage
            /\ BodyTokenTypes[Len(BodyTokenTypes)] = "IDENTIFIER")
           => segres.err.kind = "expected '.', '-', ')', or '('"

\* "a(-a)?" was accepted: an optional group right after an identifier
C2_Witness ==
    /\ SegAccepted
    /\ BodyTokenTypes = <<"IDENTIFIER", "LPAREN", "DASH", "IDENTIFIER", "RPAREN", "QUESTION">>
    /\ Len(segres.segs) = 2
    /\ segres.segs[2].Kind = "Optional"

IdA == <<"a">>

IdB == <<"b">>

\* the sources made of "a = x", "b = y" and the filename line fn, in any order
SourcesWith(fn) ==
    {src \in [1..3 -> {DefA, DefB, fn}] : {src[i] : i \in 1..3} = {DefA, DefB, fn}}

\* C3 as stated: with a and b defined, "> (-b)?a.a" parses, to the segments
\* [Optional([b]), a] and the extension a.
C3_OptThenIdParses ==
    (Finished /\ input \in SourcesWith(FnOptThenId))
    => /\ ~IsErr(result.err)
       /\ result.synta.Filename =
              Filename(<<OptionalSegment(<<IdentifierSegment(IdB)>>),
                         IdentifierSegment(IdA)>>, IdA)

\* C3 amended: with a and b defined, "> (-b)?a.a" is rejected by
\* parseSegments, which wants '.', '-', ')' or '(' after the group and gets an
\* identifier; it is "> (-b)?-a.a", with the dash, that parses to the
\* segments [Optional([b]), a] and the extension a.
C3_OptThenIdRejected ==
    /\ (Finished /\ input \in SourcesWith(FnOptThenId))
       => result.err = Err("expected '.', '-', ')', or '('", FALSE, 0, <<"IDENTIFIER">>)
    /\ (Finished /\ input \in SourcesWith(FnOptDashId))
       => /\ ~IsErr(result.err)
          /\ result.synta.Filename =
                 Filename(<<OptionalSegment(<<IdentifierSegment(IdB)>>),
                            IdentifierSegment(IdA)>>, IdA)

\* the parse of "a = x", "b = y", "> (-b)?a.a" has ended in the error
C3_Witness ==
    /\ pc = "done"
    /\ input = <<DefA, DefB, FnOptThenId>>
    /\ result.err.kind = "expected '.', '-', ')', or '('"
    /\ Len(s.Nodes) = 2

\* the statement lines every one of which is valid by itself
CleanLines == {DefA, DefB, DefC, DefADup, FnA, FnAB, FnOptDashId, FnIdOpt}

LineIsFilename(line) == line[1] = ">"

\* the identifier a clean definition line defines
LineDefId(line) == <<line[1]>>

\* lines i < j of the source clash: two definitions of one identifier, or
\* two filename lines
Clash(src, i, j) ==
    /\ i < j
    /\ IF LineIsFilename(src[j]) THEN LineIsFilename(src[i])
       ELSE ~LineIsFilename(src[i]) /\ LineDefId(src[i]) = LineDefId(src[j])

ClashLines(src) == {j \in 1..Len(src) : \E i \in 1..Len(src) : Clash(src, i, j)}

DefinitionNodes(nodes) == {i \in 1..Len(nodes) : nodes[i].Type = "Definition"}

FilenameNodes(nodes) == {i \in 1..Len(nodes) : nodes[i].Type = "Filename"}

CommentsOnly(src) == src # <<>> /\ \A i \in 1..Len(src) : src[i] = CommentLine

\* C6 as stated: a source of comment lines only fails with the
\* missing-filename-declaration error.
C6_CommentsOnlyMissingFilename ==
    (Finished /\ CommentsOnly(input))
    => result.err.kind = "missing filename declaration"

\* C6 amended: a source of comment lines only fails in parseDefinitionNode,
\* with the error "expected identifier at line N, got EOF", N being the
\* number of the last line.
C6_CommentsOnlyExpectedIdentifier ==
    (Finished /\ CommentsOnly(input))
    => result.err = Err("expected identifier", TRUE, Len(input), <<"EOF">>)

\* the parse of two comment lines has ended in an error
C6_Witness ==
    /\ pc = "done"
    /\ input = <<CommentLine, CommentLine>>
    /\ IsErr(result.err)
    /\ currentToken.Type = "EOF"

\* C7: for the Document d of a successful parse, Clear(d) has d's Filename
\* and, as Definitions, exactly the extension and the identifiers of the
\* segment tree, each with its Definition of d.
C7_ClearExact ==
    pc = "cleared" =>
        /\ cleared.Filename = result.synta.Filename
        /\ DOMAIN cleared.Definitions = FilenameIds(result.synta.Filename)
        /\ \A id \in DOMAIN cleared.Definitions :
               /\ id \in DOMAIN result.synta.Definitions
               /\ cleared.Definitions[id] = result.synta.Definitions[id]

\* Clear has dropped a definition the filename does not reach
C7_Witness ==
    /\ pc = "cleared"
    /\ \E id \in DOMAIN result.synta.Definitions : id \notin DOMAIN cleared.Definitions
    /\ Cardinality(DOMAIN result.synta.Definitions) = 2
    /\ DOMAIN cleared.Definitions = {result.synta.Filename.Extension}

====
